---- MODULE Spec2Model ----
(***************************************************************************)
(* fabulous.logs.TransientStreamHandler (src/fabulous/logs.py).            *)
(*                                                                         *)
(* A string is a sequence of one-character strings.  The handler's stream  *)
(* is the sequence of characters written to it so far.  The stream, the    *)
(* formatter and the terminal width are collaborators of the handler: an   *)
(* emit takes the record, and the outcomes of the successive stream.write  *)
(* calls it makes, as inputs.                                              *)
(***************************************************************************)
EXTENDS Integers, Sequences, FiniteSets, TLC

VARIABLES levelno, need_cr, last, stream, width, calls

vars == <<levelno, need_cr, last, stream, width, calls>>

(***************************************************************************)
(* Bounds and input domains.                                               *)
(***************************************************************************)
MaxCalls == 3
MaxErrCalls == 2
MaxResizeCalls == 3

WARNING == 30
RecordLevels == {10, WARNING}
Thresholds == {WARNING, 40}
Widths == {2, 3, 10}

SP == " "
NL == "\n"
CR == "\r"
\* one non-ASCII character (U+00E9) and the two bytes of its UTF-8 encoding
EACUTE == "U+00E9"
BYTE_C3 == "0xC3"
BYTE_A9 == "0xA9"

Messages ==
    { << >>,
      <<"a">>,
      <<"b", "b">>,
      <<"A", "L", "E", "R", "T">>,
      <<"a", "b", "c", "d", "e", "f", "g", "h", "i", "j", "k", "l">>,
      <<"a", "b", "c", NL, "d", "e">>,
      <<"a", "b", NL, NL, "c", SP, NL>>,
      <<"5", "%">>,
      <<"%", "%", "z">> }

(***************************************************************************)
(* Python built-ins used by the handler.                                   *)
(***************************************************************************)
Min(a, b) == IF a <= b THEN a ELSE b
Max(a, b) == IF a >= b THEN a ELSE b

Whitespace == {SP, NL, CR, "\t"}

\* s[:k], k possibly negative
SliceTo(s, k) ==
    IF k >= 0 THEN SubSeq(s, 1, Min(k, Len(s)))
    ELSE SubSeq(s, 1, Max(0, Len(s) + k))

RECURSIVE rstrip(_)
rstrip(s) ==
    IF s # << >> /\ s[Len(s)] \in Whitespace
    THEN rstrip(SubSeq(s, 1, Len(s) - 1))
    ELSE s

\* s.split('\n'): always at least one element
RECURSIVE split(_)
split(s) ==
    IF \E i \in 1..Len(s) : s[i] = NL
    THEN LET i == CHOOSE j \in 1..Len(s) :
                      s[j] = NL /\ \A k \in 1..(j - 1) : s[k] # NL
         IN <<SubSeq(s, 1, i - 1)>> \o split(SubSeq(s, i + 1, Len(s)))
    ELSE <<s>>

Spaces(n) == [i \in 1..n |-> SP]

\* "%-<n>s" % s
ljust(s, n) == IF Len(s) >= n THEN s ELSE s \o Spaces(n - Len(s))

\* unicode.encode("UTF-8"): one byte per ASCII character, two for U+00E9
encode_char(c) == IF c = EACUTE THEN <<BYTE_C3, BYTE_A9>> ELSE <<c>>

RECURSIVE encode(_)
encode(s) == IF s = << >> THEN << >> ELSE encode_char(Head(s)) \o encode(Tail(s))

(***************************************************************************)
(* The % operator applied to the part of a format string that follows the  *)
(* one conversion consuming the argument: "%%" (with optional flags, width,*)
(* precision and length modifier) yields a literal "%"; every other        *)
(* conversion finds no argument left (TypeError), and a "%" at the end of  *)
(* the string is an incomplete format (ValueError).                        *)
(***************************************************************************)
FlagChars == {"-", "+", SP, "#", "0"}
DigitChars == {"0", "1", "2", "3", "4", "5", "6", "7", "8", "9"}
LengthChars == {"h", "l", "L"}

DigitValue(c) ==
    CASE c = "0" -> 0 [] c = "1" -> 1 [] c = "2" -> 2 [] c = "3" -> 3
      [] c = "4" -> 4 [] c = "5" -> 5 [] c = "6" -> 6 [] c = "7" -> 7
      [] c = "8" -> 8 [] c = "9" -> 9

RECURSIVE SkipChars(_, _, _)
SkipChars(s, i, set) ==
    IF i <= Len(s) /\ s[i] \in set THEN SkipChars(s, i + 1, set) ELSE i

RECURSIVE Number(_, _, _)
Number(s, i, j) ==
    IF i >= j THEN 0 ELSE 10 * Number(s, i, j - 1) + DigitValue(s[j - 1])

rjust(s, n) == IF Len(s) >= n THEN s ELSE Spaces(n - Len(s)) \o s

RECURSIVE format_rest(_, _, _)
format_rest(s, i, acc) ==
    IF i > Len(s) THEN [exc |-> "none", text |-> acc]
    ELSE IF s[i] # "%" THEN format_rest(s, i + 1, Append(acc, s[i]))
    ELSE LET f1 == SkipChars(s, i + 1, FlagChars)
             w1 == SkipChars(s, f1, DigitChars)
             p1 == IF w1 <= Len(s) /\ s[w1] = "."
                   THEN SkipChars(s, w1 + 1, DigitChars) ELSE w1
             c1 == IF p1 <= Len(s) /\ s[p1] \in LengthChars
                   THEN p1 + 1 ELSE p1
             left == \E k \in (i + 1)..(f1 - 1) : s[k] = "-"
             wd == Number(s, f1, w1)
         IN IF c1 > Len(s) THEN [exc |-> "ValueError", text |-> acc]
            ELSE IF s[c1] = "%"
                 THEN format_rest(s, c1 + 1,
                          acc \o (IF left THEN ljust(<<"%">>, wd)
                                  ELSE rjust(<<"%">>, wd)))
                 ELSE [exc |-> "TypeError", text |-> acc]

(***************************************************************************)
(* The stream.  The n-th stream.write call of one handler operation has    *)
(* the outcome f[n] ("ok" beyond the end of f); a failed call writes       *)
(* nothing.  h is the handler during one operation: its fields, the stream,*)
(* the number of stream.write calls, of flushes and of retried writes, the *)
(* write strategies invoked, the exception being propagated ("none" while        *)
(* running), the number of handleError calls and the exception raised to   *)
(* the caller.                                                             *)
(***************************************************************************)
Outcome(f, n) == IF n <= Len(f) THEN f[n] ELSE "ok"

stream_write(h, text, f) ==
    IF h.exc # "none" THEN h
    ELSE IF Outcome(f, h.n + 1) = "ok"
         THEN [h EXCEPT !.stream = @ \o text, !.n = @ + 1]
         ELSE [h EXCEPT !.exc = Outcome(f, h.n + 1), !.n = @ + 1]

stream_flush(h) ==
    IF h.exc # "none" THEN h ELSE [h EXCEPT !.flushes = @ + 1]

\* stream.write(text) with no except clause
write_no_retry(h, text, retry, f) == stream_write(h, text, f)

\* try: stream.write(text)  except UnicodeError: stream.write(retry)
write_or_retry(h, text, retry, f) ==
    LET h1 == stream_write(h, text, f)
    IN IF h.exc = "none" /\ h1.exc = "UnicodeError"
       THEN stream_write([h1 EXCEPT !.exc = "none", !.retries = @ + 1],
                         retry, f)
       ELSE h1

(***************************************************************************)
(* TransientStreamHandler.                                                 *)
(***************************************************************************)
\* __init__(strm, level) with an integer level
init_handler(level) ==
    [levelno |-> level, need_cr |-> FALSE, last |-> << >>]

start(nc, l, strm) ==
    [need_cr |-> nc, last |-> l, stream |-> strm,
     n |-> 0, flushes |-> 0, retries |-> 0, invoked |-> << >>,
     exc |-> "none", handled |-> 0, raised |-> "none"]

close_silent(h, f) == [h EXCEPT !.need_cr = FALSE]

\* close(); parent.close does not write to the stream
close(h, f) ==
    LET h1 == IF h.need_cr
              THEN LET h2 == stream_write(h, <<NL>>, f)
                   IN IF h2.exc = "none" THEN [h2 EXCEPT !.need_cr = FALSE]
                      ELSE h2
              ELSE h
    IN [h1 EXCEPT !.raised = h1.exc]

\* write() that also records the message as the last line
write_sets_last(h, data, w, f) ==
    LET h0 == [h EXCEPT !.invoked = Append(@, "write")]
    IN write_or_retry([h0 EXCEPT !.last = data],
                      data \o <<NL>>, encode(data) \o <<NL>>, f)

\* write() that clears need_cr once the message is written
write_clears_need_cr(h, data, w, f) ==
    LET h0 == [h EXCEPT !.invoked = Append(@, "write")]
        rest == format_rest(h0.last, 1, << >>)
        h1 == IF ~h0.need_cr
              THEN write_or_retry(h0, data \o <<NL>>, encode(data) \o <<NL>>, f)
              ELSE IF rest.exc # "none" THEN [h0 EXCEPT !.exc = rest.exc]
              ELSE write_or_retry(h0,
                       <<CR>> \o ljust(data, Max(Min(w, Len(h0.last)), Len(data)))
                          \o <<NL>> \o rest.text,
                       <<CR>> \o ljust(encode(data),
                                       Max(Min(w, Len(h0.last)), Len(data)))
                          \o <<NL>> \o rest.text,
                       f)
    IN IF h1.exc = "none" THEN [h1 EXCEPT !.need_cr = FALSE] ELSE h1

\* width of the committed row in write()
commit_width(w, l, data) == Max(Min(w, Len(l)), Len(data))

\* write(data) with utils.term.width = w
write(h, data, w, f) ==
    LET h0 == [h EXCEPT !.invoked = Append(@, "write")]
    IN IF h0.need_cr
       THEN LET wd == commit_width(w, h0.last, data)
                rest == format_rest(h0.last, 1, << >>)
            IN IF rest.exc # "none" THEN [h0 EXCEPT !.exc = rest.exc]
               ELSE write_or_retry(h0,
                        <<CR>> \o ljust(data, wd) \o <<NL>> \o rest.text,
                        <<CR>> \o ljust(encode(data), wd) \o <<NL>> \o rest.text,
                        f)
       ELSE write_or_retry(h0, data \o <<NL>>, encode(data) \o <<NL>>, f)

\* if len(line) > width: line = line[:width - 3] + '...'
truncate(line, w) ==
    IF Len(line) > w THEN SliceTo(line, w - 3) \o <<".", ".", ".">> ELSE line

line_width_full(w, l, line) == Max(w, Max(Len(l), Len(line)))

line_width(w, l, line) == Max(Min(w, Len(l)), Len(line))

\* a loop body that records the line as last only once it is written
write_line_last_after(h, line0, w, f) ==
    IF line0 # << >>
    THEN LET line == truncate(line0, w)
             lw == line_width(w, h.last, line)
             h1 == write_or_retry(h, ljust(line, lw),
                                  ljust(encode(line), lw), f)
         IN IF h1.exc = "none" THEN [h1 EXCEPT !.last = line] ELSE h1
    ELSE stream_flush(stream_write(h, <<CR>>, f))

\* one iteration of the loop of transient_write
write_line(h, line0, w, f) ==
    IF line0 # << >>
    THEN LET line == truncate(line0, w)
             lw == line_width(w, h.last, line)
         IN write_or_retry([h EXCEPT !.last = line],
                           ljust(line, lw), ljust(encode(line), lw), f)
    ELSE stream_flush(stream_write(h, <<CR>>, f))

RECURSIVE write_lines(_, _, _, _)
write_lines(h, lines, w, f) ==
    IF lines = << >> \/ h.exc # "none" THEN h
    ELSE write_lines(write_line(h, Head(lines), w, f), Tail(lines), w, f)

begin_transient_no_cr(h, f) == [h EXCEPT !.need_cr = TRUE]

begin_transient_always_cr(h, f) ==
    stream_write([h EXCEPT !.need_cr = TRUE], <<CR>>, f)

begin_transient_unset(h, f) ==
    IF h.need_cr THEN stream_write(h, <<CR>>, f) ELSE h

\* the carriage-return bookkeeping at the start of transient_write
begin_transient(h, f) ==
    IF h.need_cr THEN stream_write(h, <<CR>>, f)
    ELSE [h EXCEPT !.need_cr = TRUE]

\* transient_write that splits the message without trimming it
transient_write_untrimmed(h, data, w, f) ==
    write_lines(begin_transient([h EXCEPT !.invoked = Append(@, "transient_write")], f),
                split(data), w, f)

\* transient_write(data) with utils.term.width = w
transient_write(h, data, w, f) ==
    write_lines(begin_transient([h EXCEPT !.invoked = Append(@, "transient_write")], f),
                split(rstrip(data)), w, f)

is_permanent_strict(lvl, thr) == lvl > thr

is_permanent(lvl, thr) == lvl >= thr

\* the body of the try block of emit; rec.bad: self.format(record) raises
emit_body(h, rec, thr, w, f) ==
    IF rec.bad THEN [h EXCEPT !.exc = "FormatError"]
    ELSE IF is_permanent(rec.levelno, thr) THEN write(h, rec.msg, w, f)
         ELSE transient_write(h, rec.msg, w, f)

Reraised == {"KeyboardInterrupt", "SystemExit"}

handle_all(h) ==
    IF h.exc = "none" THEN h ELSE [h EXCEPT !.handled = @ + 1]

\* the except clauses of emit
handle(h) ==
    IF h.exc = "none" THEN h
    ELSE IF h.exc \in Reraised THEN [h EXCEPT !.raised = h.exc]
    ELSE [h EXCEPT !.handled = @ + 1]

emit(h, rec, thr, w, f) == handle(emit_body(h, rec, thr, w, f))

(***************************************************************************)
(* State machine.  calls is the log of the operations called on the        *)
(* handler, each with the state it started from and what it did.           *)
(***************************************************************************)
Init ==
    /\ \E level \in Thresholds :
          /\ levelno = init_handler(level).levelno
          /\ need_cr = init_handler(level).need_cr
          /\ last = init_handler(level).last
    /\ width \in Widths
    /\ stream = << >>
    /\ calls = << >>

Entry(kind, rec, f, h) ==
    [kind |-> kind, msg |-> rec.msg, levelno |-> rec.levelno, bad |-> rec.bad,
     fault |-> f, need_cr0 |-> need_cr, last0 |-> last, stream0 |-> stream,
     width |-> width, invoked |-> h.invoked, writes |-> h.n,
     flushes |-> h.flushes, retries |-> h.retries, exc |-> h.exc,
     handled |-> h.handled, raised |-> h.raised]

\* an emit that keeps using the width it saw at the first call
DoEmit_cached_width(rec, f) ==
    LET w == IF calls = << >> THEN width ELSE calls[1].width
        h == emit(start(need_cr, last, stream), rec, levelno, w, f)
    IN /\ need_cr' = h.need_cr
       /\ last' = h.last
       /\ stream' = h.stream
       /\ calls' = Append(calls, Entry("emit", rec, f, h))
       /\ UNCHANGED <<levelno, width>>

DoEmit(rec, f) ==
    LET h == emit(start(need_cr, last, stream), rec, levelno, width, f)
    IN /\ need_cr' = h.need_cr
       /\ last' = h.last
       /\ stream' = h.stream
       /\ calls' = Append(calls, Entry("emit", rec, f, h))
       /\ UNCHANGED <<levelno, width>>

NoRecord == [msg |-> << >>, levelno |-> 0, bad |-> FALSE]

DoClose(f) ==
    LET h == close(start(need_cr, last, stream), f)
    IN /\ need_cr' = h.need_cr
       /\ last' = h.last
       /\ stream' = h.stream
       /\ calls' = Append(calls, Entry("close", NoRecord, f, h))
       /\ UNCHANGED <<levelno, width>>

NoFault == << >>

\* emit(record): the formatter and the stream succeed
Emit ==
    /\ Len(calls) < MaxCalls
    /\ \E m \in Messages, l \in RecordLevels :
          DoEmit([msg |-> m, levelno |-> l, bad |-> FALSE], NoFault)

Close ==
    /\ Len(calls) < MaxCalls
    /\ DoClose(NoFault)

Next == Emit \/ Close

Spec == Init /\ [][Next]_vars

(***************************************************************************)
(* The same handler with a formatter and a stream that can fail.           *)
(***************************************************************************)
Exceptions == {"UnicodeError", "IOError", "KeyboardInterrupt", "SystemExit"}

Faults ==
    {NoFault}
      \cup {<<e>> : e \in Exceptions}
      \cup {<<"ok", e>> : e \in {"UnicodeError", "IOError"}}
      \cup {<<"UnicodeError", e>> : e \in {"UnicodeError", "IOError"}}

ErrMessages ==
    { <<"a", "b", NL, NL, "c", SP, NL>>,
      <<"5", "%">>,
      <<"c", EACUTE>> }

EmitErr ==
    /\ Len(calls) < MaxErrCalls
    /\ \E m \in ErrMessages, l \in RecordLevels, f \in Faults :
          DoEmit([msg |-> m, levelno |-> l, bad |-> FALSE], f)

EmitBad ==
    /\ Len(calls) < MaxErrCalls
    /\ \E m \in ErrMessages, l \in RecordLevels :
          DoEmit([msg |-> m, levelno |-> l, bad |-> TRUE], NoFault)

CloseErr ==
    /\ Len(calls) < MaxErrCalls
    /\ \E f \in {NoFault, <<"IOError">>} : DoClose(f)

NextErr == EmitErr \/ EmitBad \/ CloseErr

SpecErr == Init /\ [][NextErr]_vars

(***************************************************************************)
(* The same handler on a terminal that is resized between calls:           *)
(* utils.term.width is read at each call.                                  *)
(***************************************************************************)
ResizeMessages ==
    { <<"b", "b">>,
      <<"A", "L", "E", "R", "T">>,
      <<"a", "b", "c", "d", "e", "f", "g", "h", "i", "j", "k", "l">>,
      <<"a", "b", NL, NL, "c", SP, NL>> }

Resize ==
    /\ Len(calls) < MaxResizeCalls
    /\ \E w \in Widths \ {width} : width' = w
    /\ calls' = Append(calls, Entry("resize", NoRecord, NoFault,
                                    start(need_cr, last, stream)))
    /\ UNCHANGED <<levelno, need_cr, last, stream>>

EmitResized ==
    /\ Len(calls) < MaxResizeCalls
    /\ \E m \in ResizeMessages, l \in RecordLevels :
          DoEmit([msg |-> m, levelno |-> l, bad |-> FALSE], NoFault)

CloseResized ==
    /\ Len(calls) < MaxResizeCalls
    /\ DoClose(NoFault)

NextResize == EmitResized \/ CloseResized \/ Resize

SpecResize == Init /\ [][NextResize]_vars

TypeOK ==
    /\ levelno \in Thresholds
    /\ need_cr \in BOOLEAN
    /\ width \in Widths
    /\ Len(calls) <= MaxCalls

(***************************************************************************)
(* Observation of the stream as a terminal: rows of cells and a cursor     *)
(* column.  A carriage return moves the cursor to column 0, a newline      *)
(* starts the next row at column 0, every other character overwrites the   *)
(* cell under the cursor and advances the cursor.                          *)
(***************************************************************************)
RECURSIVE Screen(_, _, _, _)
Screen(text, i, rows, col) ==
    IF i > Len(text) THEN rows
    ELSE IF text[i] = CR THEN Screen(text, i + 1, rows, 0)
    ELSE IF text[i] = NL THEN Screen(text, i + 1, Append(rows, << >>), 0)
    ELSE LET cur == rows[Len(rows)]
             new == IF col < Len(cur) THEN [cur EXCEPT ![col + 1] = text[i]]
                    ELSE Append(cur, text[i])
         IN Screen(text, i + 1, [rows EXCEPT ![Len(rows)] = new], col + 1)

Rows(text) == Screen(text, 1, << << >> >>, 0)

\* the row that holds the cursor
Row(text) == Rows(text)[Len(Rows(text))]

\* what a row shows: its cells without the trailing blanks
RECURSIVE Shown(_)
Shown(row) ==
    IF row # << >> /\ row[Len(row)] = SP
    THEN Shown(SubSeq(row, 1, Len(row) - 1))
    ELSE row

IsInfix(p, s) ==
    \E i \in 0..(Len(s) - Len(p)) : SubSeq(s, i + 1, i + Len(p)) = p

HasNewline(s) == \E i \in 1..Len(s) : s[i] = NL

(***************************************************************************)
(* The log of calls: the state after call i is the state call i+1 started  *)
(* from, or the current state for the last call.                           *)
(***************************************************************************)
NCalls == Len(calls)

StreamAfter(i) == IF i < NCalls THEN calls[i + 1].stream0 ELSE stream
NeedCrAfter(i) == IF i < NCalls THEN calls[i + 1].need_cr0 ELSE need_cr
LastAfter(i) == IF i < NCalls THEN calls[i + 1].last0 ELSE last

\* the characters call i added to the stream
Written(i) ==
    SubSeq(StreamAfter(i), Len(calls[i].stream0) + 1, Len(StreamAfter(i)))

IsEmit(i) == calls[i].kind = "emit"
IsClose(i) == calls[i].kind = "close"
IsTransient(i) == IsEmit(i) /\ calls[i].invoked = <<"transient_write">>
IsPermanent(i) == IsEmit(i) /\ calls[i].invoked = <<"write">>
Succeeded(i) == calls[i].exc = "none"

\* the call just made.  Every state after a call is a reachable state, so a
\* property of the latest call that holds in every reachable state holds of
\* every call.
Latest == IF NCalls = 0 THEN {} ELSE {NCalls}

\* C1: every successfully formatted record invokes exactly one of the two
\* write strategies: write when record.levelno >= levelno, transient_write
\* when record.levelno < levelno.
C1_RoutesBySeverity ==
    \A i \in Latest :
        (IsEmit(i) /\ ~calls[i].bad) =>
            /\ Len(calls[i].invoked) = 1
            /\ calls[i].levelno >= levelno => calls[i].invoked = <<"write">>
            /\ calls[i].levelno < levelno =>
                   calls[i].invoked = <<"transient_write">>

C1_Witness ==
    /\ NCalls >= 2
    /\ IsPermanent(1) /\ calls[1].levelno = levelno
    /\ IsTransient(2) /\ calls[2].levelno < levelno

\* the lines of a transient message that are displayed: the non-empty lines
\* of the right-trimmed message, cut to the width
RECURSIVE NonEmpty(_)
NonEmpty(lines) ==
    IF lines = << >> THEN << >>
    ELSE IF Head(lines) = << >> THEN NonEmpty(Tail(lines))
    ELSE <<Head(lines)>> \o NonEmpty(Tail(lines))

RECURSIVE Concat(_)
Concat(lines) ==
    IF lines = << >> THEN << >> ELSE Head(lines) \o Concat(Tail(lines))

DisplayLines(m, w) ==
    LET ls == NonEmpty(split(rstrip(m)))
    IN [k \in 1..Len(ls) |-> truncate(ls[k], w)]

TransientOnly ==
    /\ NCalls > 0
    /\ \A i \in 1..NCalls : IsTransient(i) /\ Succeeded(i)

\* C2: after any sequence of transient-only messages the terminal shows one
\* row, and that row shows only the text of the last message (its last line,
\* or its lines one after the other): nothing of an earlier transient line
\* is visible.  Stated for the widths at which a truncated line fits the
\* width (3 and more) and for a last message that has text.
C2_OnlyLastTransientVisible ==
    (TransientOnly /\ width >= 3) =>
        LET ls == DisplayLines(calls[NCalls].msg, width)
        IN ls # << >> =>
              /\ Len(Rows(stream)) = 1
              /\ Shown(Row(stream)) \in {Shown(ls[Len(ls)]), Shown(Concat(ls))}

\* C3: a permanent-severity message is in the output of its emit verbatim
\* and followed by a newline, whatever the state before it (read weakly:
\* blanks may stand between the message and the newline).
C3_PermanentVerbatim ==
    \A i \in 1..NCalls :
        (IsEmit(i) /\ ~calls[i].bad /\ calls[i].levelno >= levelno) =>
            \E k \in 0..Len(Written(i)) :
                IsInfix(calls[i].msg \o Spaces(k) \o <<NL>>, Written(i))

\* C4: a permanent write of a one-line message over a pending transient
\* line commits the message on the row of the transient line and redraws
\* last on the row below, with need_cr still true and last unchanged; the
\* transient write after it overwrites the redrawn row.
C4_PushDown ==
    \A i \in 1..NCalls :
        (/\ IsEmit(i) /\ ~calls[i].bad /\ calls[i].levelno >= levelno
         /\ calls[i].need_cr0 /\ ~HasNewline(calls[i].msg)) =>
            LET before == Rows(calls[i].stream0)
                after == Rows(StreamAfter(i))
            IN /\ Len(after) = Len(before) + 1
               /\ Shown(after[Len(before)]) = Shown(calls[i].msg)
               /\ Shown(after[Len(after)]) = Shown(calls[i].last0)
               /\ NeedCrAfter(i)
               /\ LastAfter(i) = calls[i].last0
               /\ (i < NCalls /\ IsTransient(i + 1)
                     /\ DisplayLines(calls[i + 1].msg, width) # << >>) =>
                     LET ls == DisplayLines(calls[i + 1].msg, width)
                         final == Rows(StreamAfter(i + 1))
                     IN /\ Len(final) = Len(after)
                        /\ Shown(final[Len(before)]) = Shown(calls[i].msg)
                        /\ Shown(final[Len(final)])
                              \in {Shown(ls[Len(ls)]), Shown(Concat(ls))}

\* C5: close() with a transient line pending writes exactly one newline and
\* clears need_cr, so the stream then ends in a newline; with nothing
\* pending it writes nothing.
C5_CloseTerminatesLine ==
    \A i \in Latest :
        IsClose(i) =>
            /\ ~NeedCrAfter(i)
            /\ LastAfter(i) = calls[i].last0
            /\ IF calls[i].need_cr0
               THEN /\ StreamAfter(i) = calls[i].stream0 \o <<NL>>
                    /\ calls[i].writes = 1
               ELSE /\ StreamAfter(i) = calls[i].stream0
                    /\ calls[i].writes = 0

C5_Witness ==
    /\ NCalls = 3
    /\ IsTransient(1) /\ Len(calls[1].msg) > 0
    /\ IsClose(2) /\ calls[2].need_cr0
    /\ IsClose(3) /\ ~calls[3].need_cr0
    /\ stream[Len(stream)] = NL

\* the text a transient write wrote for its line: what follows the leading
\* carriage return, if one was due
LineText(i) ==
    IF calls[i].need_cr0 THEN Tail(Written(i)) ELSE Written(i)

\* C6: for every positive width W, a transient line longer than W is
\* written as exactly W characters: its first W-3 characters and "...".
C6_TruncatedToWidth ==
    \A i \in 1..NCalls :
        LET line == rstrip(calls[i].msg)
            w == calls[i].width
        IN (IsTransient(i) /\ Succeeded(i) /\ ~HasNewline(line)
              /\ Len(line) > w) =>
               /\ Len(LineText(i)) = w
               /\ w >= 3
               /\ LineText(i) = SubSeq(line, 1, w - 3) \o <<".", ".", ".">>

\* C7: an emit hands every ordinary failure of the formatter or of a stream
\* write to handleError and returns normally, and the next emit that meets
\* no failure writes as usual; KeyboardInterrupt and SystemExit are raised
\* to the caller and handleError is not called.
C7_EmitNeverRaisesOrdinary ==
    \A i \in Latest :
        IsEmit(i) =>
            /\ calls[i].exc \in Reraised =>
                   calls[i].raised = calls[i].exc /\ calls[i].handled = 0
            /\ calls[i].exc \notin (Reraised \cup {"none"}) =>
                   calls[i].raised = "none" /\ calls[i].handled = 1
            /\ calls[i].exc = "none" =>
                   /\ calls[i].raised = "none" /\ calls[i].handled = 0
                   /\ calls[i].writes >= 1
                   /\ StreamAfter(i) # calls[i].stream0
            /\ calls[i].bad => calls[i].exc = "FormatError"
            /\ (calls[i].fault # NoFault /\ calls[i].writes >= 1
                  /\ calls[i].fault[1] \notin {"ok", "UnicodeError"}) =>
                   calls[i].exc = calls[i].fault[1]

C7_Witness ==
    /\ NCalls = 2
    /\ IsEmit(1) /\ calls[1].exc = "IOError" /\ calls[1].handled = 1
    /\ IsEmit(2) /\ Succeeded(2) /\ StreamAfter(2) # calls[2].stream0

C7_WitnessInterrupt ==
    /\ NCalls = 2
    /\ IsEmit(1) /\ calls[1].bad /\ calls[1].handled = 1
    /\ IsEmit(2) /\ calls[2].raised = "KeyboardInterrupt"

Str_a == <<"a">>
Str_bb == <<"b", "b">>
Str_ALERT == <<"A", "L", "E", "R", "T">>

\* the scenario of C8: a fresh handler with threshold WARNING at width 10
\* is given DEBUG "a", DEBUG "bb" and then WARNING "ALERT"
Scenario(n) ==
    /\ levelno = WARNING /\ width = 10 /\ NCalls >= n
    /\ IsEmit(1) /\ calls[1].msg = Str_a /\ calls[1].levelno = 10
    /\ IsEmit(2) /\ calls[2].msg = Str_bb /\ calls[2].levelno = 10
    /\ n >= 3 =>
          IsEmit(3) /\ calls[3].msg = Str_ALERT /\ calls[3].levelno = WARNING

Repeated(i) ==
    /\ IsTransient(i - 1) /\ Succeeded(i - 1)
    /\ IsTransient(i) /\ Succeeded(i)
    /\ calls[i].msg = calls[i - 1].msg
    /\ ~HasNewline(rstrip(calls[i].msg))

\* the second emit leaves need_cr, last and the terminal rows as they were
SameAfter(i) ==
    /\ NeedCrAfter(i) = calls[i].need_cr0
    /\ LastAfter(i) = calls[i].last0
    /\ Rows(StreamAfter(i)) = Rows(calls[i].stream0)

\* the text of a one-line message as a transient write displays it
DisplayText(i) == truncate(rstrip(calls[i].msg), calls[i].width)

\* C9 as amended: a one-line message emitted transiently twice in a row: the
\* second emit leaves need_cr, last and the terminal row as the first left
\* them, and writes a carriage return and the same text (padded at most with
\* blanks), or two carriage returns when the message has no text.
C9_TransientIdempotent ==
    \A i \in Latest \ {1} :
        Repeated(i) =>
            /\ SameAfter(i)
            /\ IF DisplayText(i) = << >>
               THEN Written(i) = <<CR, CR>>
               ELSE \E k \in 0..Len(Written(i)) :
                       Written(i) = <<CR>> \o ljust(DisplayText(i), k)

C9_Witness ==
    /\ NCalls = 3
    /\ IsTransient(1) /\ calls[1].msg = Str_ALERT
    /\ IsTransient(2) /\ calls[2].msg = Str_bb
    /\ IsTransient(3) /\ calls[3].msg = Str_bb
    /\ Shown(Row(stream)) = Str_bb

\* C9 as claimed: the second emit writes one carriage return and the text
\* with padding, for every one-line message.
C9_AsClaimed ==
    \A i \in 2..NCalls :
        Repeated(i) =>
            /\ SameAfter(i)
            /\ \E k \in 0..Len(Written(i)) :
                  Written(i) = <<CR>> \o ljust(DisplayText(i), k)

\* C10: construction leaves last empty and need_cr false, and a permanent
\* write and close() never change last.
C10_LastOnlyByTransient ==
    /\ NCalls = 0 => (last = << >> /\ need_cr = FALSE)
    /\ \A i \in Latest :
          (IsClose(i) \/ IsPermanent(i)) => LastAfter(i) = calls[i].last0

C10_Witness ==
    /\ NCalls = 3
    /\ IsTransient(1) /\ calls[1].msg = Str_bb
    /\ IsPermanent(2) /\ Succeeded(2) /\ calls[2].msg = Str_ALERT
    /\ IsClose(3)
    /\ last = Str_bb

\* C11 as amended: a permanent write leaves need_cr as it found it: still
\* true after a write over a pending transient line, still false otherwise.
C11_PermanentKeepsNeedCr ==
    \A i \in Latest :
        IsPermanent(i) => NeedCrAfter(i) = calls[i].need_cr0

C11_Witness ==
    /\ NCalls = 3
    /\ IsPermanent(1) /\ Succeeded(1) /\ ~calls[1].need_cr0
    /\ IsTransient(2) /\ calls[2].msg = Str_bb
    /\ IsPermanent(3) /\ Succeeded(3) /\ calls[3].msg = Str_ALERT
    /\ need_cr

\* C11 as claimed: after every permanent write need_cr is false.
C11_AsClaimed ==
    \A i \in 1..NCalls :
        (IsPermanent(i) /\ Succeeded(i)) => ~NeedCrAfter(i)

\* C12: between calls, when need_cr is true the row that holds the cursor
\* shows exactly the content of last, and the stream does not end in a
\* newline (the row is not committed).
C12_RowShowsLast ==
    need_cr =>
        /\ Shown(Row(stream)) = Shown(last)
        /\ stream # << >> => stream[Len(stream)] # NL

\* C13: a permanent write of a one-line message over a pending transient
\* line, once written, leaves on the committed row the message and nothing
\* of what the row showed before.
C13_NoStaleOnCommittedRow ==
    \A i \in 1..NCalls :
        (/\ IsPermanent(i) /\ Succeeded(i) /\ calls[i].need_cr0
         /\ ~HasNewline(calls[i].msg)) =>
            LET k == Len(Rows(calls[i].stream0))
            IN Shown(Rows(StreamAfter(i))[k]) = Shown(calls[i].msg)

\* the lines of the message of call i, as transient_write takes them
MsgLines(i) == split(rstrip(calls[i].msg))

Ellipsis == <<".", ".", ".">>

\* a line as displayed at width w: whole, or cut to w - 3 characters and "..."
Cut(line, w) ==
    IF Len(line) > w THEN SliceTo(line, w - 3) \o Ellipsis ELSE line

PadAsCoded == "max(min(width, len(last)), len(line))"
PadAsClaimed == "max(width, len(last), len(line))"

\* the number of columns a non-empty transient line is padded to, l being
\* the non-empty transient line before it
Pad(rule, w, l, line) ==
    IF rule = PadAsCoded THEN Max(Min(w, Len(l)), Len(line))
    ELSE Max(w, Max(Len(l), Len(line)))

\* what the lines of a transient message add to the stream under a padding
\* rule: the padded line, or a bare carriage return for an empty line
RECURSIVE LinesText(_, _, _, _)
LinesText(lines, l, w, rule) ==
    IF lines = << >> THEN << >>
    ELSE IF Head(lines) = << >>
         THEN <<CR>> \o LinesText(Tail(lines), l, w, rule)
         ELSE LET line == Cut(Head(lines), w)
              IN ljust(line, Pad(rule, w, l, line))
                    \o LinesText(Tail(lines), line, w, rule)

LeadingCR(i) == IF calls[i].need_cr0 THEN <<CR>> ELSE << >>

C15_LeadingCarriageReturn ==
    \A i \in Latest :
        (IsTransient(i) /\ Succeeded(i)) =>
            LET body == LinesText(MsgLines(i), calls[i].last0, calls[i].width,
                                  PadAsCoded)
            IN /\ NeedCrAfter(i)
               /\ calls[i].need_cr0 => Written(i) = <<CR>> \o body
               /\ ~calls[i].need_cr0 =>
                     /\ Written(i) = body
                     /\ Written(i)[1] = CR <=> Head(MsgLines(i)) = << >>

C15_Witness ==
    /\ NCalls = 3
    /\ IsTransient(1) /\ ~calls[1].need_cr0 /\ Written(1) = Str_a
    /\ IsClose(2)
    /\ IsTransient(3) /\ ~calls[3].need_cr0 /\ Written(3) = Str_bb

\* C15 as claimed: the first character of a transient write made while
\* need_cr is false (fresh handler, or after close()) is not a carriage
\* return.
C15_AsClaimed ==
    \A i \in 1..NCalls :
        (IsTransient(i) /\ Succeeded(i) /\ ~calls[i].need_cr0
           /\ (i = 1 \/ IsClose(i - 1))) =>
            Written(i)[1] # CR

\* the number of empty lines among lines
RECURSIVE EmptyCount(_)
EmptyCount(lines) ==
    IF lines = << >> THEN 0
    ELSE (IF Head(lines) = << >> THEN 1 ELSE 0) + EmptyCount(Tail(lines))

\* C16: a transient write takes the lines of the right-trimmed message in
\* order: an empty line writes a bare carriage return and flushes, a
\* non-empty line becomes last (cut to the width, unpadded); after the call
\* last is the last non-empty line, or unchanged if there is none.
C16_LinesInOrder ==
    \A i \in Latest :
        (IsTransient(i) /\ Succeeded(i)) =>
            LET shown == DisplayLines(calls[i].msg, calls[i].width)
            IN /\ LastAfter(i) = IF shown = << >> THEN calls[i].last0
                                 ELSE shown[Len(shown)]
               /\ calls[i].flushes = EmptyCount(MsgLines(i))
               /\ calls[i].writes
                     = Len(MsgLines(i)) + (IF calls[i].need_cr0 THEN 1 ELSE 0)
               /\ Written(i) = LeadingCR(i)
                     \o LinesText(MsgLines(i), calls[i].last0, calls[i].width,
                                  PadAsCoded)

C16_Witness ==
    /\ NCalls = 2
    /\ IsTransient(1) /\ calls[1].msg = Str_ALERT
    /\ IsTransient(2) /\ Len(MsgLines(2)) = 3 /\ calls[2].flushes = 1
    /\ last = <<"c">>
    /\ width = 10
    /\ Written(2) = <<CR, "a", "b">> \o Spaces(3) \o <<CR, "c", SP>>

\* call i is an emit whose first stream.write call writes message text: a
\* permanent write whose format string is well formed, or a transient write
\* with no carriage return due whose first line is not empty
FirstWriteIsText(i) ==
    /\ IsEmit(i) /\ ~calls[i].bad
    /\ \/ IsPermanent(i) /\ calls[i].writes >= 1
       \/ IsTransient(i) /\ ~calls[i].need_cr0 /\ Head(MsgLines(i)) # << >>

\* the text of that first write and the text of its retry
FirstText(i, enc) ==
    LET c == calls[i]
        m == IF enc THEN encode(c.msg) ELSE c.msg
        line == Cut(Head(MsgLines(i)), c.width)
    IN IF IsPermanent(i)
       THEN IF c.need_cr0
            THEN <<CR>> \o ljust(m, Max(Min(c.width, Len(c.last0)), Len(c.msg)))
                    \o <<NL>> \o format_rest(c.last0, 1, << >>).text
            ELSE m \o <<NL>>
       ELSE ljust(IF enc THEN encode(line) ELSE line,
                  Max(Min(c.width, Len(c.last0)), Len(line)))

\* C17: a write of message text that fails with a UnicodeError is made once
\* more with the message encoded as UTF-8; a failure of that second write is
\* the failure of the emit (handed to handleError unless it is re-raised),
\* with no third write; a write that fails in another way is not repeated.
C17_EncodingFallback ==
    \A i \in Latest :
        FirstWriteIsText(i) =>
            LET c == calls[i]
                o1 == Outcome(c.fault, 1)
                o2 == Outcome(c.fault, 2)
            IN /\ c.retries <= 1
               /\ o1 = "UnicodeError" =>
                     /\ c.retries = 1
                     /\ o2 = "ok" =>
                           /\ c.exc = "none"
                           /\ IsInfix(FirstText(i, TRUE), Written(i))
                           /\ SubSeq(Written(i), 1, Len(FirstText(i, TRUE)))
                                 = FirstText(i, TRUE)
                     /\ o2 # "ok" =>
                           /\ c.exc = o2 /\ c.writes = 2
                           /\ Written(i) = << >>
                           /\ c.handled = IF o2 \in Reraised THEN 0 ELSE 1
               /\ o1 \notin {"ok", "UnicodeError"} =>
                     /\ c.retries = 0 /\ c.writes = 1
                     /\ c.exc = o1 /\ Written(i) = << >>
               /\ (o1 = "ok" /\ o2 # "UnicodeError") => c.retries = 0
               /\ o1 = "ok" =>
                     SubSeq(Written(i), 1, Len(FirstText(i, FALSE)))
                        = FirstText(i, FALSE)

C17_Witness ==
    /\ NCalls = 2
    /\ IsTransient(1) /\ calls[1].msg = <<"c", EACUTE>>
    /\ calls[1].fault = <<"UnicodeError">> /\ calls[1].retries = 1
    /\ Written(1) = <<"c", BYTE_C3, BYTE_A9>>
    /\ IsPermanent(2) /\ calls[2].fault = <<"UnicodeError", "UnicodeError">>
    /\ calls[2].writes = 2 /\ calls[2].handled = 1

IsResize(i) == calls[i].kind = "resize"

\* the terminal width when call i was made
WidthAt(i) == calls[i].width
WidthAfter(i) == IF i < NCalls THEN calls[i + 1].width ELSE width

\* C18: a change of the terminal width changes neither need_cr nor last
\* (nor the stream), and every write uses the width of the moment of its
\* call: a transient write cuts and pads its lines by that width and last, a
\* permanent write over a pending line pads by that width and last.
C18_WidthReadAtEachCall ==
    \A i \in Latest :
        /\ IsResize(i) =>
              /\ NeedCrAfter(i) = calls[i].need_cr0
              /\ LastAfter(i) = calls[i].last0
              /\ StreamAfter(i) = calls[i].stream0
        /\ (IsTransient(i) /\ Succeeded(i)) =>
              LET shown == DisplayLines(calls[i].msg, WidthAt(i))
              IN /\ Written(i) = LeadingCR(i)
                       \o LinesText(MsgLines(i), calls[i].last0, WidthAt(i),
                                    PadAsCoded)
                 /\ LastAfter(i) = IF shown = << >> THEN calls[i].last0
                                   ELSE shown[Len(shown)]
        /\ (IsPermanent(i) /\ Succeeded(i) /\ calls[i].need_cr0) =>
              Written(i) = <<CR>>
                  \o ljust(calls[i].msg,
                           Max(Min(WidthAt(i), Len(calls[i].last0)),
                               Len(calls[i].msg)))
                  \o <<NL>> \o format_rest(calls[i].last0, 1, << >>).text

C18_Witness ==
    /\ NCalls = 3
    /\ IsTransient(1) /\ WidthAt(1) = 10 /\ Len(calls[1].msg) = 12
    /\ Len(calls[1].msg) = 12 /\ Len(calls[2].last0) = 10
    /\ IsResize(2) /\ WidthAfter(2) = 3
    /\ IsTransient(3) /\ Len(calls[3].msg) = 12
    /\ last = Ellipsis
    /\ Written(3) = <<CR>> \o Ellipsis

\* permanent write i put last on a new row after the message
Redisplays(i) ==
    /\ calls[i].need_cr0
    /\ Len(Rows(StreamAfter(i))) > Len(Rows(calls[i].stream0))
    /\ Row(StreamAfter(i)) = format_rest(calls[i].last0, 1, << >>).text

\* C19: every transient write leaves need_cr true; need_cr goes from true
\* to false only in close() or in a permanent write that does not display
\* last again; so without close(), need_cr is true after every emit that
\* follows a transient write.
C19_NeedCrStateMachine ==
    /\ \A i \in Latest : IsTransient(i) => NeedCrAfter(i)
    /\ \A i \in Latest :
          (calls[i].need_cr0 /\ ~NeedCrAfter(i)) =>
              \/ IsClose(i)
              \/ IsPermanent(i) /\ ~Redisplays(i)
    /\ \A i \in 1..NCalls : \A j \in Latest :
          (IsTransient(i) /\ \A k \in i..j : IsEmit(k)) => NeedCrAfter(j)

C19_Witness ==
    /\ NCalls = 3
    /\ IsTransient(1) /\ calls[1].msg = Str_a
    /\ IsPermanent(2) /\ calls[2].msg = Str_ALERT /\ Redisplays(2)
    /\ calls[3].need_cr0
    /\ IsClose(3) /\ ~need_cr

\* the first stream.write call of transient write i that writes a line, and
\* that line as cut to the width
FirstLineCall(i) == IF calls[i].need_cr0 THEN 2 ELSE 1
FirstLine(i) == Cut(Head(MsgLines(i)), calls[i].width)

\* C20: a transient write whose write of a non-empty line raises leaves
\* need_cr true and last equal to that line, which is not in the stream; a
\* permanent write that fails leaves need_cr and last as they were.
C20_NoRollback ==
    \A i \in Latest :
        /\ (/\ IsTransient(i) /\ Head(MsgLines(i)) # << >>
            /\ calls[i].writes - calls[i].retries = FirstLineCall(i)
            /\ calls[i].exc # "none") =>
               /\ NeedCrAfter(i)
               /\ LastAfter(i) = FirstLine(i)
               /\ Written(i) = LeadingCR(i)
               /\ calls[i].exc \notin Reraised => calls[i].handled = 1
        /\ (IsPermanent(i) /\ calls[i].exc # "none") =>
               /\ NeedCrAfter(i) = calls[i].need_cr0
               /\ LastAfter(i) = calls[i].last0
               /\ Written(i) = << >>

C20_Witness ==
    /\ NCalls = 2
    /\ IsTransient(1) /\ calls[1].fault = <<"IOError">>
    /\ calls[1].msg = <<"c", EACUTE>> /\ calls[1].handled = 1
    /\ calls[2].need_cr0 /\ calls[2].last0 = <<"c", EACUTE>>
    /\ calls[2].stream0 = << >>
    /\ IsPermanent(2) /\ calls[2].exc = "IOError"
    /\ need_cr /\ last = <<"c", EACUTE>> /\ stream = << >>

====
